---- MODULE Spec2Model ----
(***************************************************************************)
(* Guarded edit sessions of md-splice (md_splice/ctx.py): MdEdit and       *)
(* MdBatchEdit around one MarkdownDocument bound to one file.              *)
(*                                                                         *)
(* A session object runs through                                           *)
(*   new -> idle -> acquire -> body -> (raised) -> hook -> stale -> diff   *)
(*       -> write -> finally -> closed                                     *)
(* one action per statement group of __enter__ / __exit__, so that an      *)
(* external writer of the file can act between any two of them.            *)
(*                                                                         *)
(* Spec is one session object and an external writer of its file;          *)
(* SpecNested is two session objects used by one thread, whose with-blocks *)
(* nest.                                                                   *)
(*                                                                         *)
(* The document engine (MarkdownDocument: from_file, apply, render,        *)
(* write_in_place) is native code, not Python; it is modelled from the     *)
(* specification (sections 4.4, 4.5 and 6).                                *)
(***************************************************************************)
EXTENDS Integers, Sequences, FiniteSets, TLC

\* ------------------------------------------------------------------ bounds
MaxEnters == 2      \* __enter__ calls in one behaviour
MaxOps == 2         \* operations handed to apply / queued in one behaviour
MaxExtWrites == 1   \* writes of the external writer in one behaviour
MaxList == 2        \* operations in one list handed to apply or preview
MaxRefused == 1     \* refused apply calls in one block of a Batch Session
MaxSignals == 1     \* warnings issued in one activation

\* ------------------------------------------------------------- the universe
Sessions == {"s1", "s2"}
Kinds == {"MdEdit", "MdBatchEdit"}
\* raw paths a caller may pass; "-" is the stdin sentinel
RawPaths == {"doc.md", "./doc.md", "other.md", "-"}
Paths == {"/w/doc.md", "/w/other.md"}

\* Path(path).expanduser().resolve(): two raw spellings of one file
Resolve(raw) ==
    IF raw \in {"doc.md", "./doc.md"} THEN "/w/doc.md" ELSE "/w/other.md"

\* A text is a sequence of blocks; "ws" is formatting the parser drops.
InitText == <<"h", "p", "p">>
ExtTexts == {<<"x", "ws", "p">>, <<"x", "p">>}
NoFile == <<"absent">>
NoDoc == <<"nodoc">>
NoToken == <<-1, -1>>

Size(text) == Len(text)

\* the operations a caller builds; Junk is a value that is no Operation
OpInsert == [op |-> "insert", sel |-> "h", content |-> "q"]
OpReplace == [op |-> "replace", sel |-> "p", content |-> "q"]
OpDelete == [op |-> "delete", sel |-> "z", content |-> "none"]
Junk == [op |-> "junk", sel |-> "none", content |-> "none"]
Ops == {OpInsert, OpReplace, OpDelete}
OPERATION_TYPES ==
    {"insert", "replace", "delete",
     "set_frontmatter", "delete_frontmatter", "replace_frontmatter"}

\* exceptions: the Python type and the part of the message the tests match
NoExc == [type |-> "none", msg |-> "none"]
BodyError == [type |-> "RuntimeError", msg |-> "boom"]
ReentrancyError == [type |-> "RuntimeError", msg |-> "context already active"]
StaleError == [type |-> "RuntimeError", msg |-> "file changed on disk"]
AmbiguityError == [type |-> "OperationFailedError", msg |-> "Ambiguity detected"]
EngineError == [type |-> "OperationFailedError", msg |-> "operation failed"]
IoFailure == [type |-> "IoError", msg |-> "io"]
OsError == [type |-> "OSError", msg |-> "stat or read failed"]
TypeErr == [type |-> "TypeError", msg |-> "Unsupported operation type"]
ValueErr == [type |-> "ValueError", msg |-> "stdin path '-' is not supported"]

VARIABLES
    active,        \* MdEdit._active_paths (class attribute, shared)
    showwarning,   \* warnings.showwarning: "orig" or the session whose interceptor it is
    shown,         \* ambiguity signals that reached the original handler
    file,          \* path -> [text, mtime, gen, ver]; gen counts the external
                   \* writes, ver every write
    backupFile,    \* path -> text of "<name>~", or NoFile
    sess,          \* session object -> its fields (and a record of what it did)
    nest,          \* single-threaded: the open with-blocks, innermost last
    running,       \* single-threaded: the session inside __enter__/__exit__, or "none"
    nEnter,        \* __enter__ calls so far
    nOps,          \* operations handed over so far
    threaded,      \* FALSE: one thread, with-blocks nest; TRUE: one thread per session
    made           \* the last Selector or Operation construction: class, arguments,
                   \* and the exception raised ("none": the object was built)

vars == <<active, showwarning, shown, file, backupFile, sess, nest, running,
          nEnter, nOps, threaded, made>>

\* ----------------------------------------------------------- document engine
\* (native code; modelled from spec 4.4/6)

RECURSIVE DropWs(_)
DropWs(text) ==
    IF text = <<>> THEN <<>>
    ELSE IF Head(text) = "ws" THEN DropWs(Tail(text))
    ELSE <<Head(text)>> \o DropWs(Tail(text))

\* parse(text) -> Document
Parse(text) == DropWs(text)

\* render(Document) -> text
Render(doc) == doc

Matches(doc, sel) == {i \in 1..Len(doc) : doc[i] = sel}

\* one operation on the node its selector picks (ordinal 1: the first match)
ApplyOne(doc, op) ==
    LET m == Matches(doc, op.sel)
        i == CHOOSE k \in m : \A j \in m : k <= j
        before == SubSeq(doc, 1, i - 1)
        after == SubSeq(doc, i + 1, Len(doc))
    IN  IF m = {} THEN [ok |-> FALSE, doc |-> doc, amb |-> 0]
        ELSE [ok |-> TRUE,
              doc |-> CASE op.op = "insert" -> before \o <<doc[i], op.content>> \o after
                        [] op.op = "replace" -> before \o <<op.content>> \o after
                        [] OTHER -> before \o after,
              amb |-> IF Cardinality(m) > 1 THEN 1 ELSE 0]

\* the ordered list, stopping at the first failure; amb counts the ambiguity
\* signals emitted on the way
RECURSIVE ApplyAll(_, _)
ApplyAll(doc, ops) ==
    IF ops = <<>> THEN [ok |-> TRUE, doc |-> doc, amb |-> 0]
    ELSE LET r == ApplyOne(doc, Head(ops))
         IN  IF ~r.ok THEN r
             ELSE LET rest == ApplyAll(r.doc, Tail(ops))
                  IN  [ok |-> rest.ok, doc |-> rest.doc, amb |-> r.amb + rest.amb]

\* _raise_on_warning (ctx.py 152-156): a session's interceptor raises on an
\* ambiguity signal; the handler of before any session ("orig") shows it
RaisesOnAmbiguity(h) == h # "orig"

\* faulty variant: an apply that keeps what the operations before the failing
\* one did
EngineApply_Partial(doc, ops, h) ==
    LET r == ApplyAll(doc, ops)
    IN  [exc |-> IF r.ok THEN NoExc ELSE EngineError, doc |-> r.doc,
         shown |-> r.amb, emitted |-> r.amb > 0]

\* doc.apply(ops) under the handler h that warnings.showwarning holds:
\* all-or-nothing; an ambiguity signal goes to h, and an interceptor raises on it
EngineApply(doc, ops, h) ==
    LET r == ApplyAll(doc, ops)
    IN  IF r.amb > 0 /\ RaisesOnAmbiguity(h)
        THEN [exc |-> AmbiguityError, doc |-> doc, shown |-> 0, emitted |-> TRUE]
        ELSE IF ~r.ok
        THEN [exc |-> EngineError, doc |-> doc, shown |-> r.amb, emitted |-> r.amb > 0]
        ELSE [exc |-> NoExc, doc |-> r.doc, shown |-> r.amb, emitted |-> r.amb > 0]

\* faulty variant: a preview that works on the document itself
EnginePreview_InPlace(doc, ops, h) ==
    LET res == EngineApply(doc, ops, h)
    IN  [exc |-> res.exc, doc |-> res.doc,
         out |-> IF res.exc = NoExc THEN Render(res.doc) ELSE <<"none">>,
         shown |-> res.shown, emitted |-> res.emitted]

\* preview(doc, ops): the same resolution and mutation as apply, on a copy; the
\* rendered result is returned and the document (doc in the result) stays
EnginePreview(doc, ops, h) ==
    LET res == EngineApply(doc, ops, h)
    IN  [exc |-> res.exc, doc |-> doc,
         out |-> IF res.exc = NoExc THEN Render(res.doc) ELSE <<"none">>,
         shown |-> res.shown, emitted |-> res.emitted]

\* ------------------------------------------------- selectors and operations
\* (md_splice/types.py)  "None" stands for an argument left at None
NothingMade == [cls |-> "none", args |-> <<>>, exc |-> "none"]

\* select_regex values: None, a pattern string (well-formed or not, possibly
\* with inline flags), a compiled re.Pattern with its flags, or another type
NoRegex == [form |-> "None", valid |-> TRUE, flags |-> {}]
Regexes ==
    {NoRegex,
     [form |-> "str", valid |-> TRUE, flags |-> {}],
     [form |-> "str", valid |-> FALSE, flags |-> {}],
     [form |-> "str", valid |-> TRUE, flags |-> {"VERBOSE"}],
     [form |-> "compiled", valid |-> TRUE, flags |-> {"UNICODE", "DOTALL"}],
     [form |-> "compiled", valid |-> TRUE, flags |-> {"UNICODE", "VERBOSE"}],
     [form |-> "compiled", valid |-> TRUE, flags |-> {"ASCII", "IGNORECASE"}],
     [form |-> "int", valid |-> FALSE, flags |-> {}]}

\* the flags the bridge honors or tolerates (Selector docstring, types.py 33-39)
HonoredFlags == {"IGNORECASE", "MULTILINE", "DOTALL", "UNICODE"}

SelectorArgs ==
    [after : {"None", "sel"}, after_ref : {"None", "intro"},
     within : {"None", "sel"}, within_ref : {"None", "alias"},
     select_ordinal : {0, 1, 2}, select_regex : Regexes]

\* has_after, has_within (types.py 53-54)
HasAfter(a) == a.after # "None" \/ a.after_ref # "None"
HasWithin(a) == a.within # "None" \/ a.within_ref # "None"

\* faulty variant: a __post_init__ without the ordinal test
SelectorPostInit_NoOrdinalTest(a) ==
    IF a.after # "None" /\ a.after_ref # "None" THEN "ValueError"
    ELSE IF a.within # "None" /\ a.within_ref # "None" THEN "ValueError"
    ELSE IF HasAfter(a) /\ HasWithin(a) THEN "ConflictingScopeError"
    ELSE IF a.select_regex.form = "str"
         THEN IF a.select_regex.valid THEN "none" ELSE "InvalidRegexError"
    ELSE IF a.select_regex.form \in {"None", "compiled"} THEN "none"
    ELSE "TypeError"

\* faulty variant: a __post_init__ without the scope test
SelectorPostInit_NoScopeTest(a) ==
    IF a.after # "None" /\ a.after_ref # "None" THEN "ValueError"
    ELSE IF a.within # "None" /\ a.within_ref # "None" THEN "ValueError"
    ELSE IF a.select_ordinal < 1 THEN "ValueError"
    ELSE IF a.select_regex.form = "str"
         THEN IF a.select_regex.valid THEN "none" ELSE "InvalidRegexError"
    ELSE IF a.select_regex.form \in {"None", "compiled"} THEN "none"
    ELSE "TypeError"

\* Selector.__post_init__ (types.py 52-80): the exception it raises, or "none"
SelectorPostInit(a) ==
    LET has_after == a.after # "None" \/ a.after_ref # "None"
        has_within == a.within # "None" \/ a.within_ref # "None"
    IN  IF a.after # "None" /\ a.after_ref # "None" THEN "ValueError"
        ELSE IF a.within # "None" /\ a.within_ref # "None" THEN "ValueError"
        ELSE IF has_after /\ has_within THEN "ConflictingScopeError"
        ELSE IF a.select_ordinal < 1 THEN "ValueError"
        ELSE IF a.select_regex.form = "str"
             THEN IF a.select_regex.valid THEN "none" ELSE "InvalidRegexError"
        ELSE IF a.select_regex.form \in {"None", "compiled"} THEN "none"
        ELSE "TypeError"

NewSelector(a) ==
    /\ made' = [cls |-> "Selector", args |-> a, exc |-> SelectorPostInit(a)]
    /\ UNCHANGED <<active, showwarning, shown, file, backupFile, sess, nest,
                   running, nEnter, nOps, threaded>>

\* the target and range arguments of Insert/Replace/Delete (Insert has no until)
TargetClasses == {"InsertOperation", "ReplaceOperation", "DeleteOperation"}
TargetArgs(cls) ==
    [selector : {"None", "sel"}, selector_ref : {"None", "intro"},
     until : IF cls = "InsertOperation" THEN {"None"} ELSE {"None", "sel"},
     until_ref : IF cls = "InsertOperation" THEN {"None"} ELSE {"None", "end"}]

\* faulty variant: a __post_init__ without the until test
OperationPostInit_NoUntilTest(cls, a) ==
    IF (a.selector = "None") = (a.selector_ref = "None") THEN "ValueError"
    ELSE "none"

\* InsertOperation / ReplaceOperation / DeleteOperation.__post_init__
\* (types.py 97-101, 119-127, 145-153)
OperationPostInit(cls, a) ==
    IF (a.selector = "None") = (a.selector_ref = "None") THEN "ValueError"
    ELSE IF cls # "InsertOperation" /\ a.until # "None" /\ a.until_ref # "None"
         THEN "ValueError"
    ELSE "none"

NewTargetOperation(cls, a) ==
    /\ made' = [cls |-> cls, args |-> a, exc |-> OperationPostInit(cls, a)]
    /\ UNCHANGED <<active, showwarning, shown, file, backupFile, sess, nest,
                   running, nEnter, nOps, threaded>>

\* SetFrontmatterOperation / DeleteFrontmatterOperation (types.py 156-174):
\* dataclasses without a __post_init__, so construction raises nothing
FrontmatterClasses == {"SetFrontmatterOperation", "DeleteFrontmatterOperation"}
FrontmatterArgs == [key : {"", "title", "authors[0].name"}]
FrontmatterInit(cls, a) == "none"

NewFrontmatterOperation(cls, a) ==
    /\ made' = [cls |-> cls, args |-> a, exc |-> FrontmatterInit(cls, a)]
    /\ UNCHANGED <<active, showwarning, shown, file, backupFile, sess, nest,
                   running, nEnter, nOps, threaded>>

\* ---------------------------------------------------------- operation codec
\* loads_operations / dumps_operations (native; spec 4.3): an operation list is
\* written as a sequence of tagged records; fields at their default are left
\* out, and decoding puts the defaults back and constructs the operations.
CodecFormats == {"yaml", "json"}

\* the record tag of each Operation class
CodecTag(cls) ==
    CASE cls = "InsertOperation" -> "insert"
      [] cls = "ReplaceOperation" -> "replace"
      [] cls = "DeleteOperation" -> "delete"
      [] cls = "SetFrontmatterOperation" -> "set_frontmatter"
      [] cls = "DeleteFrontmatterOperation" -> "delete_frontmatter"
      [] cls = "ReplaceFrontmatterOperation" -> "replace_frontmatter"

CodecClasses ==
    TargetClasses \cup FrontmatterClasses \cup {"ReplaceFrontmatterOperation"}

\* the fields of each class (types.py 93-96, 113-117, 138-143, 165-167, 174, 186-187)
CodecFields(cls) ==
    CASE cls = "InsertOperation" -> {"selector", "selector_ref", "content", "position"}
      [] cls = "ReplaceOperation" ->
            {"selector", "selector_ref", "content", "until", "until_ref"}
      [] cls = "DeleteOperation" ->
            {"selector", "selector_ref", "section", "until", "until_ref"}
      [] cls = "SetFrontmatterOperation" -> {"key", "value", "format"}
      [] cls = "DeleteFrontmatterOperation" -> {"key"}
      [] cls = "ReplaceFrontmatterOperation" -> {"content", "format"}

\* fields without a default
CodecRequired(cls) ==
    CASE cls = "SetFrontmatterOperation" -> {"key", "value"}
      [] cls = "DeleteFrontmatterOperation" -> {"key"}
      [] cls = "ReplaceFrontmatterOperation" -> {"content"}
      [] OTHER -> {}

\* an operation value: its class and every field (a field its class does not
\* have stays at the default); a Selector is <<>> for None, <<sel>> otherwise
CodecDefault(cls) ==
    [cls |-> cls, selector |-> <<>>, selector_ref |-> "None", content |-> "None",
     position |-> "after", until |-> <<>>, until_ref |-> "None",
     section |-> FALSE, key |-> "None", value |-> "None", format |-> "None"]

SelectorDefault ==
    [select_type |-> "None", select_contains |-> "None", select_ordinal |-> 1]

CodecSelectors ==
    {[select_type |-> "li", select_contains |-> "Write documentation",
      select_ordinal |-> 1],
     [select_type |-> "None", select_contains |-> "TODO", select_ordinal |-> 2]}

\* the operations that can be constructed, from a few values per field
CodecOps ==
    LET sels == {<<>>} \cup {<<x>> : x \in CodecSelectors}
        ok(o) == OperationPostInit(o.cls,
                    [selector |-> IF o.selector = <<>> THEN "None" ELSE "sel",
                     selector_ref |-> o.selector_ref,
                     until |-> IF o.until = <<>> THEN "None" ELSE "sel",
                     until_ref |-> o.until_ref]) = "none"
        one == CHOOSE x \in CodecSelectors : x.select_ordinal = 1
        two == CHOOSE x \in CodecSelectors : x.select_ordinal = 2
        ins == {[CodecDefault("InsertOperation") EXCEPT
                    !.selector = x, !.selector_ref = y, !.content = "- [ ] Ship",
                    !.position = q] :
                  x \in {<<>>, <<one>>}, y \in {"None", "intro"},
                  q \in {"after", "before"}}
        repl == {[CodecDefault("ReplaceOperation") EXCEPT
                    !.selector = <<one>>, !.content = c, !.until_ref = u] :
                  c \in {"None", "Updated."}, u \in {"None", "end"}}
        del == {[CodecDefault("DeleteOperation") EXCEPT
                    !.selector_ref = "intro", !.section = b, !.until = x] :
                  b \in BOOLEAN, x \in {<<>>, <<two>>}}
        fm == {[CodecDefault("SetFrontmatterOperation") EXCEPT
                    !.key = "title", !.value = "Draft", !.format = f] :
                  f \in {"None", "toml"}}
              \cup {[CodecDefault("DeleteFrontmatterOperation") EXCEPT
                    !.key = "authors[0].name"]}
              \cup {[CodecDefault("ReplaceFrontmatterOperation") EXCEPT
                    !.content = "a: 1", !.format = "yaml"]}
    IN  {o \in ins \cup repl \cup del : ok(o)} \cup fm

\* a Selector as a record of its fields that are not at their default
EncodeSelector(sel) ==
    [k \in {f \in DOMAIN SelectorDefault : sel[f] # SelectorDefault[f]} |-> sel[k]]

DecodeSelector(rec) ==
    [k \in DOMAIN SelectorDefault |->
        IF k \in DOMAIN rec THEN rec[k] ELSE SelectorDefault[k]]

\* an operation as a tagged record
EncodeOperation(o) ==
    LET keys == {f \in CodecFields(o.cls) :
                    f \in CodecRequired(o.cls) \/ o[f] # CodecDefault(o.cls)[f]}
    IN  [k \in keys \cup {"op"} |->
            IF k = "op" THEN CodecTag(o.cls)
            ELSE IF k \in {"selector", "until"} THEN EncodeSelector(o[k][1])
            ELSE o[k]]

\* faulty variant: a writer that emits the records last to first
Dumps_Reversed(ops, format) ==
    [format |-> format,
     records |-> [i \in 1..Len(ops) |-> EncodeOperation(ops[Len(ops) + 1 - i])]]

\* dumps_operations(ops, format): the text, as the format it is written in and
\* the records it holds
Dumps(ops, format) ==
    [format |-> format, records |-> [i \in 1..Len(ops) |-> EncodeOperation(ops[i])]]

\* faulty variant: a reader that still accepts the content_file shorthand
Forbidden_Never(rec) == FALSE

\* the record carries the removed "content from file" field
Forbidden(rec) == "content_file" \in DOMAIN rec

CodecClassOf(tag) == CHOOSE cls \in CodecClasses : CodecTag(cls) = tag

\* the record breaks the schema: no or unknown tag, unknown field, missing
\* required field, forbidden field
Malformed(rec) ==
    \/ "op" \notin DOMAIN rec
    \/ Forbidden(rec)
    \/ /\ "op" \in DOMAIN rec
       /\ \/ rec.op \notin {CodecTag(cls) : cls \in CodecClasses}
          \/ /\ rec.op \in {CodecTag(cls) : cls \in CodecClasses}
             /\ LET cls == CodecClassOf(rec.op) IN
                \/ ~(DOMAIN rec \ {"op", "content_file"} \subseteq CodecFields(cls))
                \/ ~(CodecRequired(cls) \subseteq DOMAIN rec)

\* the operation a well-formed record stands for; content_file, where a
\* reader accepts it, names the file the content is read from
DecodeOperation(rec) ==
    LET cls == CodecClassOf(rec.op) IN
    [k \in DOMAIN CodecDefault(cls) |->
        IF k = "cls" THEN cls
        ELSE IF k = "content" /\ "content_file" \in DOMAIN rec
             THEN "<file " \o rec.content_file \o ">"
        ELSE IF k \notin DOMAIN rec THEN CodecDefault(cls)[k]
        ELSE IF k \in {"selector", "until"} THEN <<DecodeSelector(rec[k])>>
        ELSE rec[k]]

\* constructing the decoded operation fails (types.py 97-153, 66-67)
Unconstructible(o) ==
    \/ /\ o.cls \in TargetClasses
       /\ OperationPostInit(o.cls,
             [selector |-> IF o.selector = <<>> THEN "None" ELSE "sel",
              selector_ref |-> o.selector_ref,
              until |-> IF o.until = <<>> THEN "None" ELSE "sel",
              until_ref |-> o.until_ref]) # "none"
    \/ \E f \in {"selector", "until"} : o[f] # <<>> /\ o[f][1].select_ordinal < 1

\* loads_operations(text, format): the operations, or the error and none.
\* JSON text is also YAML; YAML block text is not JSON.
Loads(text, format) ==
    LET n == Len(text.records)
        bad == \/ format = "json" /\ text.format = "yaml"
               \/ \E i \in 1..n : Malformed(text.records[i])
    IN  IF bad THEN [exc |-> "OperationParseError", ops |-> <<>>]
        ELSE LET ops == [i \in 1..n |-> DecodeOperation(text.records[i])]
             IN  IF \E i \in 1..n : Unconstructible(ops[i])
                 THEN [exc |-> "ValueError", ops |-> <<>>]
                 ELSE [exc |-> "none", ops |-> ops]

\* operation lists handed to dumps_operations
CodecLists == UNION {[1..n -> CodecOps] : n \in 0..MaxList}

\* what a hand-written operation file may do to one record
Tamperings == {"none", "content_file", "tag", "field", "no_key"}

\* the calls of the codec: a list, the format it is written in, the format it
\* is read as, and the record written by hand
CodecCalls ==
    {c \in [ops : CodecLists, written : CodecFormats, format : CodecFormats,
            i : 1..MaxList, how : Tamperings] :
        \/ c.i = 1 /\ c.how = "none"
        \/ c.i <= Len(c.ops) /\ c.how # "none"}

\* loads_operations(dumps_operations(ops, format), format)
RoundTrip ==
    LET ops == made.args.ops
        format == made.args.format
        text == Dumps(ops, format)
        res == Loads(text, format)
    IN
    /\ made.cls = "call"
    /\ made.args.how = "none"
    /\ made.args.written = format
    /\ made' = [cls |-> "round_trip", args |-> [ops |-> ops, format |-> format],
                text |-> text, out |-> res.ops, exc |-> res.exc]
    /\ UNCHANGED <<active, showwarning, shown, file, backupFile, sess, nest,
                   running, nEnter, nOps, threaded>>

Tampered(rec, how) ==
    CASE how = "content_file" ->
            [k \in DOMAIN rec \cup {"content_file"} |->
                IF k = "content_file" THEN "snippet.md" ELSE rec[k]]
      [] how = "tag" -> [rec EXCEPT !.op = "move"]
      [] how = "field" ->
            [k \in DOMAIN rec \cup {"colour"} |->
                IF k = "colour" THEN "red" ELSE rec[k]]
      [] how = "no_key" -> [k \in DOMAIN rec \ {"key"} |-> rec[k]]
      [] OTHER -> rec

\* loads_operations on a text in which record i was written by hand
LoadsText ==
    LET c == made.args
        text0 == Dumps(c.ops, c.written)
        text == IF c.how = "none" THEN text0
                ELSE [text0 EXCEPT !.records[c.i] = Tampered(@, c.how)]
        res == Loads(text, c.format)
    IN
    /\ made.cls = "call"
    /\ made' = [cls |-> "loads", args |-> [text |-> text, format |-> c.format],
                text |-> text, out |-> res.ops, exc |-> res.exc]
    /\ UNCHANGED <<active, showwarning, shown, file, backupFile, sess, nest,
                   running, nEnter, nOps, threaded>>

\* ------------------------------------------------------------ session objects
\* the keyword options of __init__
AllOptions ==
    [backup : BOOLEAN, fail_on_ambiguity : BOOLEAN, check_stale : BOOLEAN,
     preview_diff : BOOLEAN, commit : BOOLEAN]
\* backup, check_stale and preview_diff at their defaults
DefaultExitOptions ==
    {o \in AllOptions : o.backup /\ o.check_stale /\ ~o.preview_diff}

NewSession ==
    [pc |-> "new", kind |-> "none", raw |-> "none", resolved |-> "none",
     backup |-> TRUE, fail_on_ambiguity |-> TRUE, check_stale |-> TRUE,
     preview_diff |-> FALSE, commit |-> TRUE,
     doc |-> NoDoc, stale_token |-> NoToken, current |-> NoToken,
     exc_type |-> "unset",
     previous_showwarning |-> "none", warnings_cm |-> "none",
     batched_ops |-> <<>>, exc |-> NoExc,
     \* what the current activation did (read by the properties only)
     entryText |-> NoFile, entryBackup |-> NoFile, entryGen |-> 0, entryVer |-> 0,
     exitGen |-> 0,
     writeGen |-> 0, steps |-> <<>>,
     applyLog |-> <<>>, previews |-> <<>>, asked |-> <<>>, refused |-> <<>>,
     leftover |-> 0, diffs |-> <<>>,
     wrote |-> FALSE, backedUp |-> FALSE,
     \* what the with statement raised to its caller
     caller |-> NoExc,
     \* "previous" in the closure of this object's newest interceptor
     closure |-> "none",
     \* the warnings issued in the block and where each one went
     signals |-> <<>>]

\* the record of a session at the start of an activation
Fresh(r) ==
    [r EXCEPT !.exc = NoExc, !.exc_type = "unset", !.current = NoToken,
              !.entryText = NoFile, !.entryBackup = NoFile, !.entryGen = 0,
              !.entryVer = 0,
              !.exitGen = 0, !.writeGen = 0,
              !.steps = <<>>, !.applyLog = <<>>, !.previews = <<>>, !.asked = <<>>,
              !.refused = <<>>, !.leftover = 0,
              !.diffs = <<>>,
              !.wrote = FALSE, !.backedUp = FALSE, !.caller = NoExc,
              !.signals = <<>>]

Init ==
    /\ active = {}
    /\ showwarning = "orig"
    /\ shown = 0
    /\ file = [p \in Paths |-> [text |-> InitText, mtime |-> 0, gen |-> 0, ver |-> 0]]
    /\ backupFile = [p \in Paths |-> NoFile]
    /\ sess = [s \in Sessions |-> NewSession]
    /\ nest = <<>>
    /\ running = "none"
    /\ nEnter = 0
    /\ nOps = 0
    /\ threaded = FALSE
    /\ made = NothingMade

\* ------------------------------------------------------------------ scheduling
\* one thread: a handler runs to its end before any other session acts, and
\* with-blocks close innermost first
CanStart(s) == threaded \/ running = "none"
CanStep(s) == threaded \/ running = s
Innermost(s) == threaded \/ (nest # <<>> /\ nest[Len(nest)] = s)

\* ------------------------------------------------------------------- __init__
\* faulty variant: the stdin path is taken for a file name
IsStdin_Never(raw) == FALSE

\* the test for the stdin sentinel (ctx.py 74)
IsStdin(raw) == raw = "-"

Construct(s, kind, raw, o) ==
    /\ sess[s].pc = "new"
    /\ CanStart(s)
    /\ IF IsStdin(raw)
       THEN sess' = [sess EXCEPT ![s].exc = ValueErr]
       ELSE sess' = [sess EXCEPT ![s] = [NewSession EXCEPT
                        !.pc = "idle", !.kind = kind, !.raw = raw,
                        !.resolved = Resolve(raw),
                        !.backup = o.backup,
                        !.fail_on_ambiguity = o.fail_on_ambiguity,
                        !.check_stale = o.check_stale,
                        !.preview_diff = o.preview_diff,
                        !.commit = o.commit]]
    /\ UNCHANGED <<active, showwarning, shown, file, backupFile, nest, running,
                   nEnter, nOps, threaded, made>>

\* ------------------------------------------------------------------ __enter__
\* faulty variant: a guard that never finds the path held
GuardHeld_Never(path, held) == FALSE

\* the reentrancy guard's test (ctx.py 92-95)
GuardHeld(path, held) == path \in held

EnterCheck(s) ==
    /\ sess[s].pc \in {"idle", "closed"}
    /\ CanStart(s)
    /\ nEnter < MaxEnters
    /\ nEnter' = nEnter + 1
    /\ IF GuardHeld(sess[s].resolved, active)
       THEN \* nothing of the object changes; the attempt is all there is
            \* to record of this activation
            /\ sess' = [sess EXCEPT ![s] = [Fresh(@) EXCEPT !.exc = ReentrancyError]]
            /\ UNCHANGED running
       ELSE /\ sess' = [sess EXCEPT ![s] = [Fresh(@) EXCEPT !.pc = "acquire"]]
            /\ running' = IF threaded THEN running ELSE s
    /\ UNCHANGED <<active, showwarning, shown, file, backupFile, nest, nOps, threaded, made>>

\* faulty variant: a _restore_warnings that leaves the handler as it is
Restored_Kept(r, sw) == sw

\* _restore_warnings (ctx.py 169-176): the handler it leaves installed
Restored(r, sw) ==
    LET a == IF r.previous_showwarning # "none" THEN r.previous_showwarning ELSE sw
    IN  IF r.warnings_cm # "none" THEN r.warnings_cm ELSE a

\* faulty variant: __enter__ that never installs the interceptor
Escalates_Never(r) == FALSE

\* if self._fail_on_ambiguity: self._install_ambiguity_filter() (ctx.py 102-103)
Escalates(r) == r.fail_on_ambiguity

\* faulty variant: a snapshot taken at the first entry only
TokenAtEnter_KeepFirst(old, tok) == IF old = NoToken THEN tok ELSE old

\* self._stale_token = _StaleToken(...) at every __enter__ (ctx.py 99-100)
TokenAtEnter(old, tok) == tok

\* faulty variant: an __enter__ that keeps what the queue holds
Cleared_Kept(ops) == ops

\* self._batched_ops.clear() (ctx.py 217)
Cleared(ops) == <<>>

\* the guard's add, the stat snapshot, the interceptor, the load (ctx.py 97-109).
\* fault: "stat" (os.stat raises), "load" (from_file raises) or "none"
EnterAcquire(s, fault) ==
    LET r == sess[s]
        f == file[r.resolved]
        tok == <<f.mtime, Size(f.text)>>
        r1 == [r EXCEPT !.stale_token = TokenAtEnter(r.stale_token, tok),
                        !.previous_showwarning =
                            IF Escalates(r) THEN showwarning ELSE "none",
                        !.warnings_cm =
                            IF Escalates(r) THEN showwarning ELSE "none",
                        !.closure = IF Escalates(r) THEN showwarning ELSE @]
        sw1 == IF Escalates(r) THEN s ELSE showwarning
    IN
    /\ r.pc = "acquire"
    /\ CanStep(s)
    /\ running' = IF threaded THEN running ELSE "none"
    /\ CASE fault = "stat" ->
              \* _cleanup_entry before anything else was done
              /\ sess' = [sess EXCEPT ![s] = [r EXCEPT !.pc = "idle", !.exc = OsError]]
              /\ active' = active \ {r.resolved}
              /\ UNCHANGED <<showwarning, nest>>
         [] fault = "load" ->
              \* _cleanup_entry after the interceptor was installed
              /\ sess' = [sess EXCEPT ![s] = [r1 EXCEPT
                            !.pc = "idle", !.exc = IoFailure,
                            !.previous_showwarning = "none",
                            !.warnings_cm = "none"]]
              /\ showwarning' = Restored(r1, sw1)
              /\ active' = active \ {r.resolved}
              /\ UNCHANGED nest
         [] OTHER ->
              /\ sess' = [sess EXCEPT ![s] = [r1 EXCEPT
                            !.pc = "body", !.doc = Parse(f.text),
                            !.batched_ops = Cleared(r.batched_ops),
                            !.leftover = Len(r.batched_ops),
                            !.entryText = f.text, !.entryGen = f.gen,
                            !.entryVer = f.ver,
                            !.entryBackup = backupFile[r.resolved]]]
              /\ showwarning' = sw1
              /\ active' = active \cup {r.resolved}
              /\ nest' = IF threaded THEN nest ELSE Append(nest, s)
    /\ UNCHANGED <<shown, file, backupFile, nEnter, nOps, threaded, made>>

\* ----------------------------------------------------------------- the body
\* MdEdit: the caller applies an operation list to the yielded document at
\* once (doc.apply(ops) on the document that __enter__ returned, ctx.py 105-106)
BodyApplyList(s, ops) ==
    LET r == sess[s]
        res == EngineApply(r.doc, ops, showwarning)
    IN
    /\ r.pc = "body"
    /\ r.kind = "MdEdit"
    /\ CanStart(s)
    /\ nOps < MaxOps
    /\ nOps' = nOps + 1
    /\ shown' = shown + res.shown
    /\ sess' = [sess EXCEPT ![s] = [r EXCEPT
                    !.doc = res.doc, !.exc = res.exc,
                    !.applyLog = Append(@, [at |-> "body", ops |-> ops,
                                            exc |-> res.exc, emitted |-> res.emitted,
                                            pre |-> Render(r.doc),
                                            post |-> Render(res.doc)]),
                    !.pc = IF res.exc = NoExc THEN "body" ELSE "raised"]]
    /\ UNCHANGED <<active, showwarning, file, backupFile, nest, running, nEnter,
                   threaded, made>>

\* the same with a single operation
BodyApply(s, op) == BodyApplyList(s, <<op>>)

\* MdEdit: the caller previews an operation list on the yielded document
BodyPreview(s, ops) ==
    LET r == sess[s]
        res == EnginePreview(r.doc, ops, showwarning)
    IN
    /\ r.pc = "body"
    /\ r.kind = "MdEdit"
    /\ CanStart(s)
    /\ nOps < MaxOps
    /\ nOps' = nOps + 1
    /\ shown' = shown + res.shown
    /\ sess' = [sess EXCEPT ![s] = [r EXCEPT
                    !.doc = res.doc, !.exc = res.exc,
                    !.previews = Append(@, [ops |-> ops, exc |-> res.exc,
                                            out |-> res.out,
                                            pre |-> Render(r.doc),
                                            post |-> Render(res.doc)]),
                    !.pc = IF res.exc = NoExc THEN "body" ELSE "raised"]]
    /\ UNCHANGED <<active, showwarning, file, backupFile, nest, running, nEnter,
                   threaded, made>>

\* a warning as showwarning receives it: its category, and whether its message
\* holds _AMBIGUITY_WARNING_SNIPPET (ctx.py 27)
Signals == [category : {"UserWarning", "DeprecationWarning"}, snippet : BOOLEAN]

\* faulty variant: an interceptor that raises on every UserWarning
Intercept_AnyUserWarning(sig) ==
    IF sig.category = "UserWarning" THEN "raise" ELSE "forward"

\* _raise_on_warning (ctx.py 152-159): raise on the ambiguity signal, hand
\* anything else to the handler captured at installation
Intercept(sig) ==
    IF sig.category = "UserWarning" /\ sig.snippet THEN "raise" ELSE "forward"

\* warnings.showwarning(sig) with handler h installed: the original handler
\* shows the warning; an interceptor raises or calls its "previous" (cl[h])
\* with the arguments it got.  via: the handlers called so far
RECURSIVE Deliver(_, _, _, _)
Deliver(h, sig, cl, via) ==
    IF h = "orig"
    THEN [raised |-> FALSE, reached |-> h, via |-> Append(via, h), got |-> sig]
    ELSE IF Intercept(sig) = "raise"
    THEN [raised |-> TRUE, reached |-> h, via |-> Append(via, h), got |-> sig]
    ELSE Deliver(cl[h], sig, cl, Append(via, h))

\* code running in the block of s issues a warning that the filters let through
Warn(s, sig) ==
    LET r == sess[s]
        res == Deliver(showwarning, sig, [t \in Sessions |-> sess[t].closure], <<>>)
    IN
    /\ r.pc = "body"
    /\ CanStart(s)
    /\ Len(r.signals) < MaxSignals
    /\ shown' = shown + (IF res.raised THEN 0 ELSE 1)
    /\ sess' = [sess EXCEPT ![s] = [r EXCEPT
                    !.signals = Append(@, [sig |-> sig, handler |-> showwarning,
                                           via |-> res.via, reached |-> res.reached,
                                           raised |-> res.raised, got |-> res.got]),
                    !.exc = IF res.raised THEN AmbiguityError ELSE @,
                    !.pc = IF res.raised THEN "raised" ELSE "body"]]
    /\ UNCHANGED <<active, showwarning, file, backupFile, nest, running, nEnter,
                   nOps, threaded, made>>

\* faulty variant: a queue that keeps the newest operation only
Queued_Newest(ops, v) == <<v>>

\* faulty variant: a queue that puts the newest operation first
Queued_Prepend(ops, v) == <<v>> \o ops

\* MdBatchEdit.apply(op): validate and queue (ctx.py 220-226)
Queued(ops, v) == Append(ops, v)

\* faulty variant: an apply that queues whatever it is given
IsOperation_Any(v) == TRUE

\* isinstance(op, _OPERATION_TYPES) (ctx.py 29-30, 221)
IsOperation(v) == v.op \in OPERATION_TYPES

\* caught: whether the caller's code in the with-block handles the TypeError
\* and carries on
BatchQueue(s, v, caught) ==
    LET r == sess[s] IN
    /\ r.kind = "MdBatchEdit"
    /\ CanStart(s)
    /\ IF r.pc = "body" /\ ~IsOperation(v)
       THEN Len(r.refused) < MaxRefused /\ UNCHANGED nOps
       ELSE nOps < MaxOps /\ nOps' = nOps + 1
    /\ IF ~IsOperation(v)
       THEN \* the TypeError leaves the with-block unless the caller handles
            \* it there; outside a block it only reaches the caller
            /\ r.pc # "body" => ~caught
            /\ sess' = [sess EXCEPT ![s] = [r EXCEPT
                        !.refused = IF r.pc = "body" THEN Append(@, v) ELSE @,
                        !.exc = IF r.pc = "body" /\ ~caught THEN TypeErr ELSE @,
                        !.pc = IF r.pc = "body" /\ ~caught THEN "raised" ELSE @]]
       ELSE sess' = [sess EXCEPT ![s] = [r EXCEPT
                        !.batched_ops = Queued(@, v),
                        !.asked = IF r.pc = "body" THEN Append(@, v) ELSE @]]
    /\ UNCHANGED <<active, showwarning, shown, file, backupFile, nest, running,
                   nEnter, threaded, made>>

\* apply(op) in the with-block
BatchApply(s, v, caught) ==
    /\ sess[s].pc = "body"
    /\ BatchQueue(s, v, caught)

\* apply(op) on an object that is not entered: nothing in apply forbids it
BatchApplyOutside(s, v) ==
    /\ sess[s].pc \in {"idle", "closed"}
    /\ BatchQueue(s, v, FALSE)

\* the caller's code in the with-block raises
BodyRaise(s) ==
    /\ sess[s].pc = "body"
    /\ CanStart(s)
    /\ sess' = [sess EXCEPT ![s].pc = "raised", ![s].exc = BodyError]
    /\ UNCHANGED <<active, showwarning, shown, file, backupFile, nest, running,
                   nEnter, nOps, threaded, made>>

\* ------------------------------------------------------------------- __exit__
\* faulty variant: __exit__ without the exc_type test
ExitTarget_CommitOnRaise(raised, commit) == IF ~commit THEN "finally" ELSE "hook"

\* faulty variant: __exit__ without the commit test
ExitTarget_IgnoreCommit(raised, commit) == IF raised THEN "finally" ELSE "hook"

\* the two early returns (ctx.py 113-117): where __exit__ goes first
ExitTarget(raised, commit) ==
    IF raised THEN "finally" ELSE IF ~commit THEN "finally" ELSE "hook"

ExitBegin(s) ==
    LET r == sess[s] IN
    /\ r.pc \in {"body", "raised"}
    /\ CanStart(s)
    /\ Innermost(s)
    /\ running' = IF threaded THEN running ELSE s
    /\ nest' = IF threaded THEN nest ELSE SubSeq(nest, 1, Len(nest) - 1)
    /\ sess' = [sess EXCEPT ![s] = [r EXCEPT
                    !.exc = IF r.pc = "raised" THEN @ ELSE NoExc,
                    !.exc_type = IF r.pc = "raised" THEN r.exc.type ELSE "None",
                    !.exitGen = file[r.resolved].gen,
                    !.pc = ExitTarget(r.pc = "raised", r.commit)]]
    /\ UNCHANGED <<active, showwarning, shown, file, backupFile, nEnter, nOps,
                   threaded, made>>

\* MdBatchEdit._pre_commit (ctx.py 228-231): the list handed to doc.apply;
\* <<>> when apply is not called
HookOps(kind, ops) == IF kind = "MdBatchEdit" THEN ops ELSE <<>>

\* faulty variant: an exit that goes on after a failed hook
AfterHook_GoOn(exc) == "stale"

\* an exception of the hook leaves the try block (ctx.py 112, 121, 131)
AfterHook(exc) == IF exc = NoExc THEN "stale" ELSE "finally"

\* faulty variant: a hook that calls apply with an empty list too
CallsApply_Always(q) == TRUE

\* if self._batched_ops: (ctx.py 229)
CallsApply(q) == q # <<>>

\* self._pre_commit() (ctx.py 121): nothing for MdEdit (136-137)
PreCommit(s) ==
    LET r == sess[s]
        q == HookOps(r.kind, r.batched_ops)
        res == EngineApply(r.doc, q, showwarning)
    IN
    /\ r.pc = "hook"
    /\ CanStep(s)
    /\ IF CallsApply(q)
       THEN /\ shown' = shown + res.shown
            /\ sess' = [sess EXCEPT ![s] = [r EXCEPT
                        !.steps = Append(@, "hook"),
                        !.applyLog = Append(@, [at |-> "exit", ops |-> q,
                                                exc |-> res.exc,
                                                emitted |-> res.emitted,
                                                pre |-> Render(r.doc),
                                                post |-> Render(res.doc)]),
                        !.doc = res.doc, !.exc = res.exc,
                        !.pc = AfterHook(res.exc)]]
       ELSE /\ sess' = [sess EXCEPT ![s] = [r EXCEPT
                        !.steps = Append(@, "hook"), !.pc = "stale"]]
            /\ UNCHANGED shown
    /\ UNCHANGED <<active, showwarning, file, backupFile, nest, running, nEnter,
                   nOps, threaded, made>>

\* faulty variant: a snapshot comparison that looks at the size only
IsStale_SizeOnly(token, f) == Size(f.text) # token[2]

\* _ensure_not_stale: the re-stat against the entry snapshot (ctx.py 178-188)
IsStale(token, f) == <<f.mtime, Size(f.text)>> # token

\* faulty variant: an exit that goes on after the staleness error
AfterStale_GoOn(stale) == "diff"

\* the RuntimeError of _ensure_not_stale leaves the try block (ctx.py 124, 131)
AfterStale(stale) == IF stale THEN "finally" ELSE "diff"

\* if self._check_stale: self._ensure_not_stale() (ctx.py 123-124)
StaleCheck(s) ==
    LET r == sess[s]
        stale == IsStale(r.stale_token, file[r.resolved])
    IN
    /\ r.pc = "stale"
    /\ CanStep(s)
    /\ IF r.check_stale
       THEN sess' = [sess EXCEPT ![s] = [r EXCEPT
                        !.steps = Append(@, "stale"),
                        !.current = <<file[r.resolved].mtime,
                                      Size(file[r.resolved].text)>>,
                        !.exc = IF stale THEN StaleError ELSE NoExc,
                        !.pc = AfterStale(stale)]]
       ELSE sess' = [sess EXCEPT ![s].pc = "diff"]
    /\ UNCHANGED <<active, showwarning, shown, file, backupFile, nest, running,
                   nEnter, nOps, threaded, made>>

\* faulty variant: a diff from the rendered document to the file
DiffUnified_Swapped(before, after) ==
    [fromfile |-> "original", tofile |-> "modified", before |-> after, after |-> before]

\* diff_unified(before, after, fromfile="original", tofile="modified")
\* (native; ctx.py 193): the diff is kept as the two texts it was made from
DiffUnified(before, after) ==
    [fromfile |-> "original", tofile |-> "modified", before |-> before, after |-> after]

\* if self._preview_diff: self._print_diff() (ctx.py 126-127, 190-195);
\* readable: whether read_text of the file succeeds
PrintDiff(s, readable) ==
    LET r == sess[s] IN
    /\ r.pc = "diff"
    /\ CanStep(s)
    /\ IF r.preview_diff
       THEN IF readable
            THEN sess' = [sess EXCEPT ![s] = [r EXCEPT
                        !.steps = Append(@, "diff"),
                        !.diffs = Append(@, DiffUnified(file[r.resolved].text,
                                                        Render(r.doc))),
                        !.pc = "write"]]
            ELSE sess' = [sess EXCEPT ![s] = [r EXCEPT
                        !.steps = Append(@, "diff"),
                        !.exc = OsError, !.pc = "finally"]]
       ELSE /\ readable
            /\ sess' = [sess EXCEPT ![s].pc = "write"]
    /\ UNCHANGED <<active, showwarning, shown, file, backupFile, nest, running,
                   nEnter, nOps, threaded, made>>

\* MarkdownDocument.write_in_place(backup) (native; spec 4.5): copy the file as
\* it stands to "<name>~" when asked, then replace the file by the rendered
\* document.  fault: where an I/O error stops it ("before" anything, at the
\* "primary" write, or "none").  d: whether the file's timestamp moves on (its
\* clock may not have ticked since the last write).
WriteInPlace(f, bak, doc, backup, fault, d) ==
    IF fault = "before" THEN [file |-> f, bak |-> bak, wrote |-> FALSE, backedUp |-> FALSE]
    ELSE LET b == IF backup THEN f.text ELSE bak
         IN  IF fault = "primary"
             THEN [file |-> [f EXCEPT !.ver = @ + 1], bak |-> b,
                   wrote |-> FALSE, backedUp |-> backup]
             ELSE [file |-> [f EXCEPT !.text = Render(doc), !.mtime = @ + d,
                                      !.ver = @ + 1],
                   bak |-> b, wrote |-> TRUE, backedUp |-> backup]

\* faulty variant: a commit that does not pass the session's backup option
BackupArg_Dropped(r) == FALSE

\* the argument of write_in_place(backup=self._backup) (ctx.py 129)
BackupArg(r) == r.backup

Write(s, fault, d) ==
    LET r == sess[s]
        w == WriteInPlace(file[r.resolved], backupFile[r.resolved], r.doc,
                          BackupArg(r), fault, d)
    IN
    /\ r.pc = "write"
    /\ CanStep(s)
    /\ fault # "none" => d = 0
    /\ file' = [file EXCEPT ![r.resolved] = w.file]
    /\ backupFile' = [backupFile EXCEPT ![r.resolved] = w.bak]
    /\ sess' = [sess EXCEPT ![s] = [r EXCEPT
                    !.steps = Append(@, "write"),
                    !.writeGen = file[r.resolved].gen,
                    !.wrote = w.wrote, !.backedUp = w.backedUp,
                    !.exc = IF fault = "none" THEN NoExc ELSE IoFailure,
                    !.pc = "finally"]]
    /\ UNCHANGED <<active, showwarning, shown, nest, running, nEnter, nOps, threaded, made>>

\* faulty variant: a finally block that forgets the discard
Released_Kept(held, path) == held

\* what the finally block leaves in _active_paths (ctx.py 133)
Released(held, path) == held \ {path}

\* finally: self._restore_warnings(); _active_paths.discard (ctx.py 131-133)
\* faulty variant: an __exit__ that answers True for an exception of the body
ExitReturn_Swallow(exc_type) == exc_type # "None"

\* the value __exit__ returns: False on every path (ctx.py 114, 117, 130)
ExitReturn(exc_type) == FALSE

\* what the with statement leaves to its caller: an exception of the body is
\* dropped only when __exit__ returned a true value; an exception raised by
\* __exit__ itself always leaves it
WithOutcome(exc_type, exc, returned) ==
    IF exc_type # "None" /\ returned THEN NoExc ELSE exc

Finally(s) ==
    LET r == sess[s] IN
    /\ r.pc = "finally"
    /\ CanStep(s)
    /\ showwarning' = Restored(r, showwarning)
    /\ active' = Released(active, r.resolved)
    /\ sess' = [sess EXCEPT ![s] = [r EXCEPT
                    !.previous_showwarning = "none", !.warnings_cm = "none",
                    !.caller = WithOutcome(r.exc_type, r.exc, ExitReturn(r.exc_type)),
                    !.pc = "closed"]]
    /\ running' = IF threaded THEN running ELSE "none"
    /\ UNCHANGED <<shown, file, backupFile, nest, nEnter, nOps, threaded, made>>

\* ------------------------------------------------------------ the environment
ExtWrites == file["/w/doc.md"].gen + file["/w/other.md"].gen

Open(s) == sess[s].pc \in {"body", "raised", "hook", "stale", "diff", "write", "finally"}

\* another process rewrites the file of an open session; d as in WriteInPlace
ExternalWrite(p, text, d) ==
    /\ ExtWrites < MaxExtWrites
    /\ \E s \in Sessions : Open(s) /\ sess[s].resolved = p
    /\ text # file[p].text
    /\ file' = [file EXCEPT ![p] = [text |-> text, mtime |-> file[p].mtime + d,
                                    gen |-> file[p].gen + 1,
                                    ver |-> file[p].ver + 1]]
    /\ UNCHANGED <<active, showwarning, shown, backupFile, sess, nest, running,
                   nEnter, nOps, threaded, made>>

\* ------------------------------------------------------------ specifications
EnterFaults == {"none", "stat", "load"}
WriteFaults == {"none", "before", "primary"}

\* one session object, any options, I/O faults, and the external writer
Next ==
    \/ \E k \in Kinds, raw \in {"doc.md", "-"}, o \in AllOptions :
          Construct("s1", k, raw, o)
    \/ EnterCheck("s1")
    \/ \E fault \in EnterFaults : EnterAcquire("s1", fault)
    \/ \E op \in Ops : BodyApply("s1", op)
    \/ \E v \in Ops \cup {Junk}, caught \in BOOLEAN : BatchApply("s1", v, caught)
    \/ \E v \in Ops \cup {Junk} : BatchApplyOutside("s1", v)
    \/ BodyRaise("s1")
    \/ ExitBegin("s1")
    \/ PreCommit("s1")
    \/ StaleCheck("s1")
    \/ \E readable \in BOOLEAN : PrintDiff("s1", readable)
    \/ \E fault \in WriteFaults, d \in {0, 1} : Write("s1", fault, d)
    \/ Finally("s1")
    \/ \E p \in Paths, text \in ExtTexts, d \in {0, 1} : ExternalWrite(p, text, d)

Spec == Init /\ [][Next]_vars

\* two session objects in one thread; no I/O fault, no external writer
NextNested ==
    \/ \E k \in Kinds, o \in DefaultExitOptions : Construct("s1", k, "doc.md", o)
    \/ \E k \in Kinds, raw \in RawPaths, o \in DefaultExitOptions :
          Construct("s2", k, raw, o)
    \/ \E s \in Sessions : EnterCheck(s)
    \/ \E s \in Sessions : EnterAcquire(s, "none")
    \/ \E s \in Sessions, op \in Ops : BodyApply(s, op)
    \/ \E s \in Sessions, v \in Ops : BatchApply(s, v, FALSE)
    \/ \E s \in Sessions : BodyRaise(s)
    \/ \E s \in Sessions : ExitBegin(s)
    \/ \E s \in Sessions : PreCommit(s)
    \/ \E s \in Sessions : StaleCheck(s)
    \/ \E s \in Sessions : PrintDiff(s, TRUE)
    \/ \E s \in Sessions : Write(s, "none", 1)
    \/ \E s \in Sessions : Finally(s)

SpecNested == Init /\ [][NextNested]_vars

\* two session objects in one thread whose blocks issue warnings; no operation
\* is applied, no I/O fault, no external writer
NextSignals ==
    \/ \E k \in Kinds, o \in DefaultExitOptions : Construct("s1", k, "doc.md", o)
    \/ \E k \in Kinds, raw \in RawPaths, o \in DefaultExitOptions :
          Construct("s2", k, raw, o)
    \/ \E s \in Sessions : EnterCheck(s)
    \/ \E s \in Sessions : EnterAcquire(s, "none")
    \/ \E s \in Sessions, sig \in Signals : Warn(s, sig)
    \/ \E s \in Sessions : ExitBegin(s)
    \/ \E s \in Sessions : PreCommit(s)
    \/ \E s \in Sessions : StaleCheck(s)
    \/ \E s \in Sessions : PrintDiff(s, TRUE)
    \/ \E s \in Sessions : Write(s, "none", 1)
    \/ \E s \in Sessions : Finally(s)

SpecSignals == Init /\ [][NextSignals]_vars

\* two session objects, each used by a thread of its own: the threads switch
\* between any two steps, and the blocks close in any order
InitThreads ==
    /\ active = {}
    /\ showwarning = "orig"
    /\ shown = 0
    /\ file = [p \in Paths |-> [text |-> InitText, mtime |-> 0, gen |-> 0, ver |-> 0]]
    /\ backupFile = [p \in Paths |-> NoFile]
    /\ sess = [s \in Sessions |-> NewSession]
    /\ nest = <<>>
    /\ running = "none"
    /\ nEnter = 0
    /\ nOps = 0
    /\ threaded = TRUE
    /\ made = NothingMade

NextThreads ==
    \/ \E k \in Kinds, o \in DefaultExitOptions : Construct("s1", k, "doc.md", o)
    \/ \E k \in Kinds, raw \in RawPaths \ {"-"}, o \in DefaultExitOptions :
          Construct("s2", k, raw, o)
    \/ \E s \in Sessions : EnterCheck(s)
    \/ \E s \in Sessions : EnterAcquire(s, "none")
    \/ \E s \in Sessions, op \in Ops : BodyApply(s, op)
    \/ \E s \in Sessions, v \in Ops : BatchApply(s, v, FALSE)
    \/ \E s \in Sessions : BodyRaise(s)
    \/ \E s \in Sessions : ExitBegin(s)
    \/ \E s \in Sessions : PreCommit(s)
    \/ \E s \in Sessions : StaleCheck(s)
    \/ \E s \in Sessions : PrintDiff(s, TRUE)
    \/ \E s \in Sessions : Write(s, "none", 1)
    \/ \E s \in Sessions : Finally(s)

SpecThreads == InitThreads /\ [][NextThreads]_vars

\* one MdEdit session whose caller applies and previews operation lists on
\* the yielded document, over several documents
EngineTexts == {<<"h", "p", "p">>, <<"h", "ws", "p">>, <<"p", "h">>}
OpLists == UNION {[1..n -> Ops] : n \in 0..MaxList}

InitEngine ==
    /\ active = {}
    /\ showwarning = "orig"
    /\ shown = 0
    /\ \E t \in EngineTexts :
          file = [p \in Paths |-> [text |-> t, mtime |-> 0, gen |-> 0, ver |-> 0]]
    /\ backupFile = [p \in Paths |-> NoFile]
    /\ sess = [s \in Sessions |-> NewSession]
    /\ nest = <<>>
    /\ running = "none"
    /\ nEnter = 0
    /\ nOps = 0
    /\ threaded = FALSE
    /\ made = NothingMade

NextEngine ==
    \/ \E o \in DefaultExitOptions : Construct("s1", "MdEdit", "doc.md", o)
    \/ EnterCheck("s1")
    \/ EnterAcquire("s1", "none")
    \/ \E ops \in OpLists : BodyApplyList("s1", ops)
    \/ \E ops \in OpLists : BodyPreview("s1", ops)
    \/ ExitBegin("s1")
    \/ PreCommit("s1")
    \/ StaleCheck("s1")
    \/ PrintDiff("s1", TRUE)
    \/ Write("s1", "none", 1)
    \/ Finally("s1")

SpecEngine == InitEngine /\ [][NextEngine]_vars

\* two session objects in one thread, I/O faults at entry and the external
\* writer: every error the session raises or passes on at entry can occur
NextErrors ==
    \/ \E k \in Kinds, o \in DefaultExitOptions : Construct("s1", k, "doc.md", o)
    \/ \E k \in Kinds, raw \in RawPaths, o \in DefaultExitOptions :
          Construct("s2", k, raw, o)
    \/ \E s \in Sessions : EnterCheck(s)
    \/ \E s \in Sessions, fault \in EnterFaults : EnterAcquire(s, fault)
    \/ \E s \in Sessions : ExitBegin(s)
    \/ \E s \in Sessions : PreCommit(s)
    \/ \E s \in Sessions : StaleCheck(s)
    \/ \E s \in Sessions : PrintDiff(s, TRUE)
    \/ \E s \in Sessions : Write(s, "none", 1)
    \/ \E s \in Sessions : Finally(s)
    \/ \E p \in Paths, text \in ExtTexts, d \in {0, 1} : ExternalWrite(p, text, d)

SpecErrors == Init /\ [][NextErrors]_vars

\* the codec on operation lists and on hand-written texts
InitCodec ==
    /\ active = {}
    /\ showwarning = "orig"
    /\ shown = 0
    /\ file = [p \in Paths |-> [text |-> InitText, mtime |-> 0, gen |-> 0, ver |-> 0]]
    /\ backupFile = [p \in Paths |-> NoFile]
    /\ sess = [s \in Sessions |-> NewSession]
    /\ nest = <<>>
    /\ running = "none"
    /\ nEnter = 0
    /\ nOps = 0
    /\ threaded = FALSE
    /\ \E c \in CodecCalls : made = [cls |-> "call", args |-> c, exc |-> "none"]

NextCodec ==
    \/ RoundTrip
    \/ LoadsText

SpecCodec == InitCodec /\ [][NextCodec]_vars

\* constructions of selectors and operations, one after another
NextTypes ==
    \/ \E a \in SelectorArgs : NewSelector(a)
    \/ \E cls \in TargetClasses : \E a \in TargetArgs(cls) : NewTargetOperation(cls, a)
    \/ \E cls \in FrontmatterClasses, a \in FrontmatterArgs :
          NewFrontmatterOperation(cls, a)

SpecTypes == Init /\ [][NextTypes]_vars

\* ================================================================== properties
AfterExit(s) == sess[s].pc \in {"finally", "closed"}
Target(s) == file[sess[s].resolved]
\* the session of this activation left its file and its backup file alone
Untouched(s) ==
    /\ ~sess[s].wrote
    /\ ~sess[s].backedUp
    /\ "write" \notin {sess[s].steps[i] : i \in 1..Len(sess[s].steps)}
    /\ Target(s).ver = sess[s].entryVer =>
          /\ Target(s).text = sess[s].entryText
          /\ Target(s).mtime = sess[s].stale_token[1]
          /\ backupFile[sess[s].resolved] = sess[s].entryBackup
ExitCalls(s) == {i \in 1..Len(sess[s].applyLog) : sess[s].applyLog[i].at = "exit"}

\* C1: when the body of a session (MdEdit or MdBatchEdit) raised, __exit__ runs
\* no commit step: no hook (a batch queue is never handed to apply), no
\* staleness check, no diff, no write and no backup; the file is as at entry
\* unless another process wrote it.
C1_NoCommitWhenBodyRaised ==
    \A s \in Sessions :
        (AfterExit(s) /\ sess[s].exc_type \notin {"unset", "None"}) =>
            /\ sess[s].steps = <<>>
            /\ ExitCalls(s) = {}
            /\ sess[s].diffs = <<>>
            /\ sess[s].current = NoToken
            /\ Untouched(s)
            /\ sess[s].exc # NoExc

C1_Witness ==
    \E s \in Sessions :
        /\ sess[s].pc = "closed"
        /\ sess[s].exc = BodyError
        /\ sess[s].kind = "MdBatchEdit"
        /\ Len(sess[s].batched_ops) = 2
        /\ sess[s].commit /\ sess[s].check_stale /\ sess[s].preview_diff
        /\ sess[s].backup
        /\ Target(s).text = InitText

Entered(s) == sess[s].pc = "acquire" \/ Open(s)
NotEntered(s) == sess[s].pc \in {"idle", "closed"}
HeldByAnother(s) ==
    \E t \in Sessions \ {s} : Entered(t) /\ sess[t].resolved = sess[s].resolved

\* an __enter__ attempted while another session holds the same canonical path
\* raises the reentrancy error and changes nothing else
RejectedEnter ==
    \A s \in Sessions :
        (/\ NotEntered(s)
         /\ HeldByAnother(s)
         /\ nEnter' = nEnter + 1) =>
            /\ sess'[s] = [Fresh(sess[s]) EXCEPT !.exc = ReentrancyError]
            /\ sess'[s].pc = sess[s].pc
            /\ sess'[s].doc = sess[s].doc
            /\ sess'[s].stale_token = sess[s].stale_token
            /\ sess'[s].batched_ops = sess[s].batched_ops
            /\ sess'[s].warnings_cm = sess[s].warnings_cm
            /\ \A t \in Sessions \ {s} : sess'[t] = sess[t]
            /\ active' = active
            /\ file' = file /\ backupFile' = backupFile
            /\ showwarning' = showwarning

\* C3: while a session is active on a canonical path, entering another session
\* (of either kind, through any raw spelling) that resolves to the same path
\* raises the reentrancy error and leaves the first session as it was, so no
\* two sessions are ever active on one canonical path.
C3_SamePathEnterRejected ==
    /\ [](\A s, t \in Sessions :
            (s # t /\ Entered(s) /\ Entered(t)) =>
                sess[s].resolved # sess[t].resolved)
    /\ [][RejectedEnter]_vars

\* the inner session was refused under another spelling and another kind, and
\* the outer one went on to commit
C3_Witness ==
    \E s, t \in Sessions :
        /\ s # t
        /\ sess[s].exc = ReentrancyError
        /\ sess[s].pc = "idle"
        /\ sess[s].raw # sess[t].raw
        /\ sess[s].resolved = sess[t].resolved
        /\ sess[s].kind # sess[t].kind
        /\ sess[t].pc = "closed"
        /\ sess[t].wrote
        /\ sess[t].exc = NoExc
        /\ nEnter = 2

\* C4: the guard set holds exactly the canonical paths of the sessions that are
\* inside their with-block or their __exit__: once __exit__ has returned or
\* raised, on whichever path, the session's path is out of the set.
C4_GuardReleasedOnEveryExit ==
    active = {sess[s].resolved : s \in {u \in Sessions : Open(u)}}

\* a session whose write failed is closed with its path released, and was
\* entered again afterwards
C4_Witness ==
    \E s \in Sessions :
        /\ sess[s].pc = "closed"
        /\ sess[s].exc = IoFailure
        /\ "write" \in {sess[s].steps[i] : i \in 1..Len(sess[s].steps)}
        /\ sess[s].resolved \notin active
        /\ nEnter = 2

\* C5: in a session with escalation enabled, an ambiguity signal emitted while
\* operations are applied (in the body for MdEdit, in the commit hook for
\* MdBatchEdit) makes that apply raise OperationFailedError "Ambiguity
\* detected"; the error is the session's outcome and the file is not written.
C5_AmbiguityEscalates ==
    \A s \in Sessions :
        \A i \in 1..Len(sess[s].applyLog) :
            (sess[s].fail_on_ambiguity /\ sess[s].applyLog[i].emitted) =>
                /\ sess[s].applyLog[i].exc = AmbiguityError
                /\ i = Len(sess[s].applyLog)
                /\ sess[s].applyLog[i].at =
                       (IF sess[s].kind = "MdEdit" THEN "body" ELSE "exit")
                /\ sess[s].exc = AmbiguityError
                /\ sess[s].pc \in {"raised", "finally", "closed"}
                /\ Untouched(s)

C5_Witness ==
    \E s \in Sessions :
        /\ sess[s].pc = "closed"
        /\ sess[s].kind = "MdBatchEdit"
        /\ sess[s].fail_on_ambiguity
        /\ sess[s].exc = AmbiguityError
        /\ sess[s].applyLog # <<>>
        /\ sess[s].applyLog[1].emitted
        /\ Target(s).text = InitText

\* C6 as claimed: in a session with escalation disabled, an operation whose
\* selector matches several nodes never fails the session with the ambiguity
\* error, and when nothing else failed the clean exit writes the file.
C6_DisabledNeverEscalates ==
    \A s \in Sessions :
        ~sess[s].fail_on_ambiguity =>
            /\ \A i \in 1..Len(sess[s].applyLog) :
                  sess[s].applyLog[i].emitted =>
                      sess[s].applyLog[i].exc # AmbiguityError
            /\ (/\ sess[s].pc = "closed"
                /\ sess[s].exc_type = "None"
                /\ sess[s].commit
                /\ \A i \in 1..Len(sess[s].applyLog) :
                      sess[s].applyLog[i].exc = NoExc) => sess[s].wrote

\* C7: a Batch Session that queued operations in its body and exits cleanly
\* with commit enabled calls the document's apply exactly once, in the commit
\* hook at exit, with every queued operation in queueing order.
C7_BatchAppliesOnce ==
    \A s \in Sessions :
        (/\ sess[s].kind = "MdBatchEdit"
         /\ sess[s].exc_type = "None"
         /\ sess[s].commit
         /\ sess[s].asked # <<>>
         /\ sess[s].pc \in {"stale", "diff", "write", "finally", "closed"}) =>
            /\ Len(sess[s].applyLog) = 1
            /\ sess[s].applyLog[1].at = "exit"
            /\ sess[s].applyLog[1].ops = sess[s].asked

\* two different operations went through one apply and the commit was written
C7_Witness ==
    \E s \in Sessions :
        /\ sess[s].kind = "MdBatchEdit"
        /\ sess[s].pc = "closed"
        /\ sess[s].wrote
        /\ sess[s].asked = <<OpReplace, OpInsert>>
        /\ Len(sess[s].applyLog) = 1
        /\ sess[s].doc = <<"h", "q", "q", "p">>
        /\ Target(s).text = sess[s].doc

\* C8: when the apply of a Batch Session's queue fails at exit, the exit raises
\* that failure, runs no later commit step, leaves the file and the backup as
\* they were at entry (unless another process wrote the file), and releases
\* the guard.
C8_BatchFailureWritesNothing ==
    \A s \in Sessions :
        (/\ sess[s].kind = "MdBatchEdit"
         /\ sess[s].applyLog # <<>>
         /\ sess[s].applyLog[1].exc # NoExc) =>
            /\ sess[s].pc \in {"finally", "closed"}
            /\ sess[s].exc = sess[s].applyLog[1].exc
            /\ sess[s].steps = <<"hook">>
            /\ sess[s].diffs = <<>>
            /\ Untouched(s)
            /\ sess[s].pc = "closed" => sess[s].resolved \notin active

\* the first queued operation would have succeeded, the second failed
C8_Witness ==
    \E s \in Sessions :
        /\ sess[s].kind = "MdBatchEdit"
        /\ sess[s].pc = "closed"
        /\ sess[s].asked = <<OpInsert, OpDelete>>
        /\ sess[s].exc = EngineError
        /\ sess[s].backup
        /\ Target(s).text = InitText
        /\ backupFile[sess[s].resolved] = NoFile
        /\ active = {}

\* C9: a clean exit with commit disabled runs no commit step: no hook (a batch
\* queue is not applied), no staleness check (no error even when the file
\* changed), no diff, no write, no backup; the exit raises nothing, and once it
\* is over the guard is released and the earlier handler is back.
C9_CommitDisabledDoesNothing ==
    \A s \in Sessions :
        (AfterExit(s) /\ sess[s].exc_type = "None" /\ ~sess[s].commit) =>
            /\ sess[s].steps = <<>>
            /\ ExitCalls(s) = {}
            /\ sess[s].current = NoToken
            /\ sess[s].diffs = <<>>
            /\ sess[s].exc = NoExc
            /\ Untouched(s)
            /\ sess[s].pc = "closed" =>
                  /\ sess[s].resolved \notin active
                  /\ sess[s].previous_showwarning = "none"
                  /\ sess[s].warnings_cm = "none"
                  /\ (\A t \in Sessions : ~Open(t)) => showwarning = "orig"

\* with every other option on, a queue left unapplied and the file changed by
\* another process in the meantime
C9_Witness ==
    \E s \in Sessions :
        /\ sess[s].pc = "closed"
        /\ sess[s].exc_type = "None"
        /\ ~sess[s].commit
        /\ sess[s].kind = "MdBatchEdit"
        /\ sess[s].batched_ops # <<>>
        /\ sess[s].check_stale /\ sess[s].preview_diff /\ sess[s].backup
        /\ sess[s].fail_on_ambiguity
        /\ Target(s).gen # sess[s].entryGen
        /\ showwarning = "orig"

C11_OneSessionPerPath ==
    \A s, t \in Sessions :
        (s # t /\ Open(s) /\ Open(t)) => sess[s].resolved # sess[t].resolved

\* C12 as claimed: with staleness checking enabled, however the external
\* writer's writes fall among the steps of the exit, the file a session writes
\* over is the one it found at entry, never one written since by another process.
C12_NeverOverwritesExternalWrite ==
    \A s \in Sessions :
        (sess[s].check_stale /\ sess[s].wrote) =>
            sess[s].writeGen = sess[s].entryGen

\* C13: when an operation of the list fails, apply raises OperationFailedError
\* and the document renders as it did before the call, also when earlier
\* operations of the list would have succeeded.
C13_ApplyIsAllOrNothing ==
    \A s \in Sessions :
        \A i \in 1..Len(sess[s].applyLog) :
            LET e == sess[s].applyLog[i] IN
            /\ (\E k \in 1..Len(e.ops) :
                    ~ApplyAll(Parse(e.pre), SubSeq(e.ops, 1, k)).ok) =>
                  /\ e.exc.type = "OperationFailedError"
                  /\ e.post = e.pre
            /\ e.exc # NoExc =>
                  /\ e.exc.type = "OperationFailedError"
                  /\ e.post = e.pre

\* the first operation of the list would have changed the document
C13_Witness ==
    \E s \in Sessions :
        \E i \in 1..Len(sess[s].applyLog) :
            LET e == sess[s].applyLog[i] IN
            /\ Len(e.ops) = 2
            /\ ApplyOne(Parse(e.pre), e.ops[1]).ok
            /\ ApplyOne(Parse(e.pre), e.ops[1]).doc # Parse(e.pre)
            /\ e.exc = EngineError
            /\ e.post = e.pre
            /\ sess[s].doc = Parse(e.pre)

\* C14: preview(doc, ops) returns the text that applying ops to the document
\* would produce, and the document renders the same before and after every
\* preview call, however many are made.
C14_PreviewNeverMutates ==
    \A s \in Sessions :
        \A i \in 1..Len(sess[s].previews) :
            LET e == sess[s].previews[i] IN
            /\ e.post = e.pre
            /\ e.exc = NoExc =>
                  /\ ApplyAll(Parse(e.pre), e.ops).ok
                  /\ e.out = Render(ApplyAll(Parse(e.pre), e.ops).doc)
            /\ (i = Len(sess[s].previews) /\ sess[s].applyLog = <<>>) =>
                  Render(sess[s].doc) = sess[s].previews[1].pre

\* two previews in a row whose results differ from the document
C14_Witness ==
    \E s \in Sessions :
        /\ Len(sess[s].previews) = 2
        /\ sess[s].applyLog = <<>>
        /\ \A i \in 1..2 :
              /\ sess[s].previews[i].exc = NoExc
              /\ sess[s].previews[i].out # sess[s].previews[i].pre
        /\ sess[s].previews[1].out # sess[s].previews[2].out
        /\ Render(sess[s].doc) = sess[s].previews[1].pre

\* C15: an Insert, Replace or Delete operation is constructed if and only if
\* exactly one of selector / selector_ref is given and (Replace, Delete) until
\* and until_ref are not both given; every other construction raises ValueError.
C15_TargetFormsExactlyOne ==
    made.cls \in TargetClasses =>
        LET a == made.args
            oneTarget == (a.selector # "None") # (a.selector_ref # "None")
            bothUntil == a.until # "None" /\ a.until_ref # "None"
        IN  /\ made.exc = "none" <=> (oneTarget /\ ~bothUntil)
            /\ made.exc \in {"none", "ValueError"}

\* a Delete by reference with one until form was built
C15_Witness ==
    /\ made.cls = "DeleteOperation"
    /\ made.args.selector = "None"
    /\ made.args.selector_ref # "None"
    /\ made.args.until # "None"
    /\ made.args.until_ref = "None"
    /\ made.exc = "none"

\* both the inline and the reference form of one slot are given
BothForms(a) ==
    \/ a.after # "None" /\ a.after_ref # "None"
    \/ a.within # "None" /\ a.within_ref # "None"

\* C16 as claimed: a Selector with a field of the after family and a field of
\* the within family fails with ConflictingScopeError for every choice of its
\* other fields.
C16_ScopeConflictAlways ==
    (made.cls = "Selector" /\ HasAfter(made.args) /\ HasWithin(made.args)) =>
        made.exc = "ConflictingScopeError"

\* C16 (amended): a Selector with both forms of one slot fails with
\* ValueError; one that has a field of the after family and a field of the
\* within family, and not both forms of a slot, fails with
\* ConflictingScopeError whatever its ordinal and regular expression.
C16_ScopeConflictUnlessBothForms ==
    made.cls = "Selector" =>
        /\ BothForms(made.args) => made.exc = "ValueError"
        /\ (HasAfter(made.args) /\ HasWithin(made.args) /\ ~BothForms(made.args)) =>
              made.exc = "ConflictingScopeError"

\* after_ref with within, a bad ordinal and a malformed pattern: the scope
\* error comes first
C16_Witness ==
    /\ made.cls = "Selector"
    /\ made.args.after = "None" /\ made.args.after_ref # "None"
    /\ made.args.within # "None" /\ made.args.within_ref = "None"
    /\ made.args.select_ordinal = 0
    /\ ~made.args.select_regex.valid
    /\ made.exc = "ConflictingScopeError"

\* C17 as claimed: constructing a Selector, well formed in its scopes and
\* ordinal, whose regular expression carries a flag outside the honored set
\* raises InvalidRegexError at construction.
C17_UnsupportedFlagRejected ==
    /\ made.cls = "Selector"
    /\ ~(HasAfter(made.args) /\ HasWithin(made.args))
    /\ ~BothForms(made.args)
    /\ made.args.select_ordinal >= 1
    /\ ~(made.args.select_regex.flags \subseteq HonoredFlags)
    => made.exc = "InvalidRegexError"

\* C18 as claimed: every constructed SetFrontmatter or DeleteFrontmatter
\* operation has a non-empty key (an empty key fails at construction).
C18_FrontmatterKeyNonEmpty ==
    (made.cls \in FrontmatterClasses /\ made.exc = "none") => made.args.key # ""

\* the errors the session itself raises: stale file (ctx.py 186-188), path
\* already active (ctx.py 92-95), stdin path (ctx.py 74-75)
SessionErrors == {StaleError, ReentrancyError, ValueErr}

\* C19 as claimed: two session errors of different kinds (raised at different
\* places for different reasons) never have the same exception type, so a
\* caller can tell them apart without reading the message.
C19_ErrorKindsDisjoint ==
    \A s, t \in Sessions :
        /\ sess[s].exc \in SessionErrors
        /\ sess[t].exc \in SessionErrors
        /\ sess[s].exc # sess[t].exc
        => sess[s].exc.type # sess[t].exc.type

\* the step rejects a construction of session s for the stdin path
RejectsStdin(s) ==
    /\ sess[s].pc = "new"
    /\ sess'[s].pc = "new"
    /\ sess'[s].exc = ValueErr
    /\ sess'[s] # sess[s]

\* C20: no session object, of either kind, exists for the path "-": its
\* construction raises ValueError, and the rejection leaves the guard set, the
\* installed handler, the files and every other session as they were; the
\* rejected object holds no path, no document and no staleness token.
C20_StdinRejectedBeforeAnyEffect ==
    /\ [](\A s \in Sessions : sess[s].raw # "-")
    /\ [][\A s \in Sessions : RejectsStdin(s) =>
            /\ active' = active
            /\ showwarning' = showwarning
            /\ shown' = shown
            /\ file' = file
            /\ backupFile' = backupFile
            /\ \A t \in Sessions \ {s} : sess'[t] = sess[t]
            /\ sess'[s] = [NewSession EXCEPT !.exc = ValueErr]]_vars

\* a session for "-" was rejected while another session was in its body,
\* holding the guard and the handler
C20_Witness ==
    /\ sess["s2"].pc = "new"
    /\ sess["s2"].exc = ValueErr
    /\ sess["s1"].pc = "body"
    /\ active = {sess["s1"].resolved}
    /\ showwarning # "orig"

C22_FileFieldRejected ==
    made.cls = "loads" =>
        /\ (\E i \in 1..Len(made.text.records) : Forbidden(made.text.records[i])) =>
              (made.exc = "OperationParseError" /\ made.out = <<>>)
        /\ \A i \in 1..Len(made.out) :
              made.out[i].content \notin {"<file snippet.md>"}

\* a well-formed record followed by an insert record with content_file
C22_Witness ==
    /\ made.cls = "loads"
    /\ Len(made.text.records) = 2
    /\ ~Malformed(made.text.records[1])
    /\ made.text.records[2].op = "insert"
    /\ Forbidden(made.text.records[2])
    /\ made.text.format = made.args.format
    /\ made.exc = "OperationParseError"
    /\ made.out = <<>>

\* the commit steps a clean exit of r with commit enabled has to run, in order
CommitSteps(r) ==
    <<"hook">> \o (IF r.check_stale THEN <<"stale">> ELSE <<>>)
               \o (IF r.preview_diff THEN <<"diff">> ELSE <<>>) \o <<"write">>

IsPrefix(a, b) == Len(a) <= Len(b) /\ SubSeq(b, 1, Len(a)) = a

\* C23: the steps an exit has run are always a prefix of hook, staleness check
\* (if enabled), diff preview (if enabled), write; they run only on a clean
\* exit with commit enabled; a later step is reached only while no step has
\* failed; the file is written only when every enabled step before the write
\* has run; and an exit that ends without an error has run them all.
C23_CommitStepsInOrder ==
    \A s \in Sessions :
        LET r == sess[s] IN
        /\ IsPrefix(r.steps, CommitSteps(r))
        /\ r.steps # <<>> => (r.exc_type = "None" /\ r.commit)
        /\ r.pc \in {"stale", "diff", "write"} => r.exc = NoExc
        /\ r.wrote => (r.steps = CommitSteps(r) /\ r.exc = NoExc)
        /\ (r.pc \in {"finally", "closed"} /\ r.exc_type = "None" /\ r.commit
              /\ r.exc = NoExc) => (r.steps = CommitSteps(r) /\ r.wrote)
        /\ (r.pc \in {"finally", "closed"} /\ r.exc = StaleError) =>
              (r.steps = <<"hook", "stale">> /\ ~r.wrote)

\* a Batch Session ran all four steps and wrote the file
C23_Witness ==
    LET r == sess["s1"] IN
    /\ r.pc = "closed"
    /\ r.kind = "MdBatchEdit"
    /\ r.batched_ops # <<>>
    /\ r.steps = <<"hook", "stale", "diff", "write">>
    /\ r.wrote

\* the session is between a successful __enter__ and the finally clause of
\* its __exit__
InBlock(s) == sess[s].pc \in {"body", "raised", "hook", "stale", "diff", "write"}

\* no session is entered or in the middle of an enter or an exit
NoneActive == \A s \in Sessions : sess[s].pc \in {"new", "idle", "closed"}

DistinctPaths == \A s, t \in Sessions : s # t => sess[s].resolved # sess[t].resolved

\* C24 as claimed: for sessions on distinct paths, entered and exited in any
\* order, once no session is active the handler is the one installed before
\* the first enter, and while a session with escalation enabled is active an
\* interceptor is installed.
C24_HandlerRestoredInAnyOrder ==
    DistinctPaths =>
        /\ NoneActive => showwarning = "orig"
        /\ \A s \in Sessions :
              (InBlock(s) /\ sess[s].fail_on_ambiguity) =>
                  RaisesOnAmbiguity(showwarning)

\* C25 as claimed: escalation is per session: while a session with escalation
\* enabled is active on another path, an apply of a session with escalation
\* disabled that emitted the ambiguity signal did not raise OperationFailedError.
C25_EscalationIsPerSession ==
    \A s, t \in Sessions :
        LET log == sess[s].applyLog IN
        (/\ s # t
         /\ ~sess[s].fail_on_ambiguity
         /\ InBlock(t)
         /\ sess[t].fail_on_ambiguity
         /\ sess[t].resolved # sess[s].resolved
         /\ log # <<>>
         /\ log[Len(log)].emitted)
        => log[Len(log)].exc.type # "OperationFailedError"

\* the step is an __enter__ of s that the reentrancy guard refuses
EnterRefused(s) ==
    /\ sess[s].pc \in {"idle", "closed"}
    /\ nEnter' = nEnter + 1
    /\ sess'[s].pc = sess[s].pc
    /\ \A t \in Sessions \ {s} : sess'[t] = sess[t]

\* the step is an __enter__ of s that fails after the guard's own test
EnterFailed(s) == sess[s].pc = "acquire" /\ sess'[s].pc = "idle"

\* C26: a failed __enter__ leaves the shared state as before the call.  A
\* refused enter raises the reentrancy error and leaves the guard set (which
\* still holds the active session's path), the handler, the files and the
\* active session as they were.  An enter that fails at the stat or the load
\* raises that error, leaves the path out of the guard set, the handler that
\* was installed before the call installed, and the object without a saved
\* handler.
C26_FailedEnterRestoresSharedState ==
    [][\A s \in Sessions :
        /\ EnterRefused(s) =>
              /\ sess'[s].exc = ReentrancyError
              /\ active' = active
              /\ sess[s].resolved \in active'
              /\ \E t \in Sessions \ {s} :
                    sess[t].resolved = sess[s].resolved /\ Open(t)
              /\ showwarning' = showwarning
              /\ file' = file /\ backupFile' = backupFile
        /\ EnterFailed(s) =>
              /\ sess'[s].exc \in {OsError, IoFailure}
              /\ active' = active
              /\ sess[s].resolved \notin active'
              /\ showwarning' = showwarning
              /\ sess'[s].previous_showwarning = "none"
              /\ sess'[s].warnings_cm = "none"
              /\ file' = file /\ backupFile' = backupFile
              /\ \A t \in Sessions \ {s} : sess'[t] = sess[t]]_vars

\* inside the block of s1, which holds the guard and the handler, the enter
\* of s2 (another path, escalation enabled) failed at the load
C26_Witness ==
    /\ sess["s1"].pc = "body"
    /\ sess["s1"].fail_on_ambiguity
    /\ sess["s2"].pc = "idle"
    /\ sess["s2"].fail_on_ambiguity
    /\ sess["s2"].exc = IoFailure
    /\ sess["s2"].resolved # sess["s1"].resolved
    /\ active = {sess["s1"].resolved}
    /\ showwarning = "s1"

\* the step is an apply(op) call in the body of the Batch Session s
BatchApplyCall(s) ==
    /\ sess[s].kind = "MdBatchEdit"
    /\ sess[s].pc = "body"
    /\ nOps' = nOps + 1

\* C27: apply(op) in the body of a Batch Session appends op to the queue and
\* changes nothing else: the document, the file and its backup, the guard
\* set, the handler and the count of intercepted signals stay as they are and
\* the engine's apply is not called, however long the queue is.
C27_BatchApplyOnlyQueues ==
    [][\A s \in Sessions :
        BatchApplyCall(s) =>
            /\ sess'[s].pc = "body" =>
                  \E v \in Ops : sess'[s].batched_ops = Append(sess[s].batched_ops, v)
            /\ sess'[s].doc = sess[s].doc
            /\ sess'[s].applyLog = sess[s].applyLog
            /\ file' = file /\ backupFile' = backupFile
            /\ active' = active
            /\ showwarning' = showwarning /\ shown' = shown]_vars

\* two operations are queued and the document is still the one that was loaded
C27_Witness ==
    LET r == sess["s1"] IN
    /\ r.kind = "MdBatchEdit"
    /\ r.pc = "body"
    /\ Len(r.batched_ops) = 2
    /\ r.batched_ops[1] # r.batched_ops[2]
    /\ r.doc = Parse(r.entryText)
    /\ r.applyLog = <<>>
    /\ Target("s1").text = r.entryText

\* the step is an apply(op) call in the body of s that raises the TypeError
RefusedCall(s) == Len(sess'[s].refused) > Len(sess[s].refused)

\* C28: apply(op) of a Batch Session with a value that is not an Operation
\* raises TypeError and leaves the queue, the document and the shared state
\* unchanged; the queue only ever holds Operations; when the caller handles
\* the error the session stays in its body, and the commit hook of a clean
\* exit applies exactly the operations accepted before and after the refused
\* call, in the order of their calls.
C28_NonOperationRefused ==
    /\ [](\A s \in Sessions :
            LET r == sess[s] IN
            /\ \A i \in 1..Len(r.batched_ops) : r.batched_ops[i] \in Ops
            /\ \A i \in 1..Len(r.refused) : r.refused[i] \notin Ops
            /\ (r.kind = "MdBatchEdit" /\ r.steps # <<>> /\ r.asked # <<>>) =>
                  (Len(r.applyLog) = 1 /\ r.applyLog[1].ops = r.asked))
    /\ [][\A s \in Sessions :
            RefusedCall(s) =>
                /\ sess[s].pc = "body"
                /\ sess'[s].batched_ops = sess[s].batched_ops
                /\ sess'[s].asked = sess[s].asked
                /\ sess'[s].doc = sess[s].doc
                /\ \/ sess'[s].pc = "body" /\ sess'[s].exc = sess[s].exc
                   \/ sess'[s].pc = "raised" /\ sess'[s].exc = TypeErr
                /\ file' = file /\ backupFile' = backupFile
                /\ active' = active /\ showwarning' = showwarning]_vars

\* an operation was accepted, a value refused and handled, another operation
\* accepted, and the clean exit applied the two in that order and wrote
C28_Witness ==
    LET r == sess["s1"] IN
    /\ r.kind = "MdBatchEdit"
    /\ r.pc = "closed"
    /\ r.refused = <<Junk>>
    /\ Len(r.asked) = 2
    /\ r.asked[1] # r.asked[2]
    /\ Len(r.applyLog) = 1
    /\ r.applyLog[1].ops = r.asked
    /\ r.wrote

\* C29: a Batch Session that exits cleanly with commit enabled and an empty
\* queue never calls the engine's apply, still runs the hook and the
\* staleness check (if enabled), and, when no step fails, writes the rendered
\* document to the file, with the backup when enabled.
C29_EmptyBatchStillCommits ==
    /\ [](\A s \in Sessions :
            LET r == sess[s] IN
            (/\ r.kind = "MdBatchEdit"
             /\ r.pc \in {"finally", "closed"}
             /\ r.exc_type = "None"
             /\ r.commit
             /\ r.batched_ops = <<>>) =>
                /\ r.applyLog = <<>>
                /\ r.steps # <<>> /\ r.steps[1] = "hook"
                /\ r.check_stale => (Len(r.steps) >= 2 /\ r.steps[2] = "stale")
                /\ r.exc = NoExc =>
                      /\ r.steps = CommitSteps(r)
                      /\ r.wrote
                      /\ r.backedUp = r.backup)
    /\ [][\A s \in Sessions :
            (/\ sess[s].kind = "MdBatchEdit"
             /\ sess[s].batched_ops = <<>>
             /\ sess[s].pc = "write"
             /\ sess'[s].wrote) =>
                /\ file'[sess[s].resolved].text = Render(sess[s].doc)
                /\ sess[s].backup =>
                      backupFile'[sess[s].resolved] = file[sess[s].resolved].text]_vars

\* an empty Batch Session with the defaults closed cleanly: checked, written
\* and backed up without any apply
C29_Witness ==
    LET r == sess["s1"] IN
    /\ r.kind = "MdBatchEdit"
    /\ r.pc = "closed"
    /\ r.batched_ops = <<>>
    /\ r.check_stale /\ r.backup /\ r.commit
    /\ r.steps = <<"hook", "stale", "write">>
    /\ r.applyLog = <<>>
    /\ r.wrote /\ r.backedUp
    /\ backupFile[r.resolved] = r.entryText

\* C30: every activation of a Batch Session starts with an empty queue:
\* whatever the queue held when __enter__ was called (queued before entering,
\* or left by an earlier activation) is dropped, so during the block the queue
\* holds exactly the operations queued in this block, and the commit hook
\* hands apply those operations only.
C30_ActivationStartsEmpty ==
    \A s \in Sessions :
        LET r == sess[s] IN
        r.kind = "MdBatchEdit" =>
            /\ (InBlock(s) \/ r.pc = "finally") => r.batched_ops = r.asked
            /\ \A i \in 1..Len(r.applyLog) :
                  /\ r.applyLog[i].at = "exit"
                  /\ r.applyLog[i].ops = r.asked
                  /\ i = 1

\* the second activation found an operation left in the queue, queued another
\* one, and its commit applied the new one only
C30_Witness ==
    LET r == sess["s1"] IN
    /\ r.kind = "MdBatchEdit"
    /\ nEnter = 2
    /\ r.pc = "closed"
    /\ r.leftover = 1
    /\ r.asked = <<OpReplace>>
    /\ Len(r.applyLog) = 1
    /\ r.applyLog[1].ops = <<OpReplace>>
    /\ r.wrote

\* the scope fields of a Selector that are set
ScopesSet(a) == {f \in {"after", "after_ref", "within", "within_ref"} : a[f] # "None"}

\* C35: every Selector that was constructed has at most one of after,
\* after_ref, within, within_ref set and an ordinal of at least 1; a
\* construction with two scope fields set or an ordinal below 1 raises and
\* yields no Selector.
C35_SelectorInvariants ==
    made.cls = "Selector" =>
        /\ made.exc = "none" =>
              /\ Cardinality(ScopesSet(made.args)) <= 1
              /\ made.args.select_ordinal >= 1
        /\ (Cardinality(ScopesSet(made.args)) > 1 \/ made.args.select_ordinal < 1) =>
              made.exc \in {"ValueError", "ConflictingScopeError"}

\* a Selector scoped by within_ref alone, with ordinal 2 and a compiled
\* pattern, was constructed
C35_Witness ==
    /\ made.cls = "Selector"
    /\ made.exc = "none"
    /\ ScopesSet(made.args) = {"within_ref"}
    /\ made.args.select_ordinal = 2
    /\ made.args.select_regex.form = "compiled"

\* C34: the staleness token is the snapshot of the file at this entry: inside
\* a block its size is the size of the text that was loaded, and an exit
\* raises the staleness error only when another process wrote the file after
\* this entry; the session's own earlier commit never makes a later
\* activation of the same object stale.
C34_TokenCapturedAtEachEntry ==
    \A s \in Sessions :
        LET r == sess[s] IN
        /\ (InBlock(s) \/ r.pc = "finally") => r.stale_token[2] = Size(r.entryText)
        /\ r.exc = StaleError => Target(s).gen > r.entryGen

\* the object committed twice: both writes are the session's own, the first
\* one changed the file's size and modification time, and the second exit
\* passed the staleness check
C34_Witness ==
    LET r == sess["s1"] IN
    /\ nEnter = 2
    /\ r.pc = "closed"
    /\ r.check_stale
    /\ r.steps = <<"hook", "stale", "write">>
    /\ r.wrote
    /\ Target("s1").gen = 0
    /\ Target("s1").ver = 2
    /\ r.entryText # InitText
    /\ Size(r.entryText) # Size(InitText)
    /\ r.stale_token[1] > 0

\* C33: __exit__ never suppresses an error: after an exit whose body raised,
\* the caller of the with statement gets that same exception; after a clean
\* exit in which a commit step (hook, staleness check, diff, write) raised,
\* the caller gets that step's exception; the caller sees no exception only
\* when nothing was raised.
C33_ExitNeverSuppresses ==
    \A s \in Sessions :
        LET r == sess[s] IN
        (r.pc = "closed" /\ r.exc_type # "unset") =>
            /\ r.caller = r.exc
            /\ r.exc_type # "None" => r.caller # NoExc /\ r.caller.type = r.exc_type
            /\ (r.exc_type = "None" /\ r.commit /\ ~r.wrote) => r.caller # NoExc
            /\ (r.caller = NoExc /\ r.commit) => r.wrote /\ r.steps = CommitSteps(r)

\* a body that applied an operation and then raised, with commit enabled: the
\* caller got the body's exception
C33_Witness ==
    LET r == sess["s1"] IN
    /\ r.pc = "closed"
    /\ r.commit
    /\ r.exc_type = BodyError.type
    /\ r.caller = BodyError
    /\ r.applyLog # <<>>
    /\ r.steps = <<>>

\* a clean exit whose staleness check raised: the caller got the staleness error
C33_StepErrorReachesCaller ==
    LET r == sess["s1"] IN
    /\ r.pc = "closed"
    /\ r.exc_type = "None"
    /\ r.caller = StaleError

StepSet(r) == {r.steps[i] : i \in 1..Len(r.steps)}

\* the steps of a committing exit up to and including the diff
StepsToDiff(r) == <<"hook">> \o (IF r.check_stale THEN <<"stale">> ELSE <<>>) \o <<"diff">>

\* what an activation has printed so far
DiffState ==
    \A s \in Sessions :
        LET r == sess[s] IN
        /\ Len(r.diffs) <= 1
        /\ ~r.preview_diff => r.diffs = <<>>
        /\ r.exc_type \notin {"unset", "None"} => r.diffs = <<>>
        /\ ~r.commit => r.diffs = <<>>
        /\ r.exc \in {StaleError, AmbiguityError, EngineError} => r.diffs = <<>>
        /\ r.diffs # <<>> =>
              /\ r.exc_type = "None"
              /\ IsPrefix(StepsToDiff(r), r.steps)
              /\ r.diffs[1].fromfile = "original"
              /\ r.diffs[1].tofile = "modified"
              /\ r.diffs[1].after = Render(r.doc)
              /\ "write" \notin StepSet(r) => r.pc = "write" /\ ~r.wrote
        /\ (r.preview_diff /\ (r.pc = "write" \/ "write" \in StepSet(r))) =>
              Len(r.diffs) = 1

\* the step that prints: the diff goes from the text on disk to the rendered
\* document, and the file is not written by that step
DiffStep ==
    \A s \in Sessions :
        Len(sess'[s].diffs) > Len(sess[s].diffs) =>
            /\ sess[s].pc = "diff"
            /\ sess'[s].pc = "write"
            /\ file' = file
            /\ backupFile' = backupFile
            /\ sess'[s].diffs = <<DiffUnified(file[sess[s].resolved].text,
                                              Render(sess[s].doc))>>
            /\ LET d == sess'[s].diffs[1] IN
               /\ d.before = file[sess[s].resolved].text
               /\ d.after = Render(sess[s].doc)

\* C31: with preview_diff, a committing exit prints one unified diff, labelled
\* original/modified, from the text on disk to the rendered document, after the
\* hook and the staleness check passed and before the write; nothing is printed
\* without preview_diff, when the body raised, when commit is off, or when the
\* hook or the staleness check raised.
C31_DiffOncePerCommittingExit == []DiffState /\ [][DiffStep]_vars

\* a committed exit with the staleness check and the preview on: one diff from
\* the text at entry to the changed document, and that document is on disk
C31_Witness ==
    LET r == sess["s1"] IN
    /\ r.pc = "closed"
    /\ r.preview_diff
    /\ r.check_stale
    /\ r.wrote
    /\ r.steps = <<"hook", "stale", "diff", "write">>
    /\ Len(r.diffs) = 1
    /\ r.diffs[1].before = r.entryText
    /\ r.diffs[1].after = Target("s1").text
    /\ r.diffs[1].before # r.diffs[1].after

\* a warning that is not the ambiguity signal
Unrelated(sig) == ~(sig.category = "UserWarning" /\ sig.snippet)

\* what an interceptor forwards to is the handler that was installed when its
\* session entered, which is the handler the session restores
ForwardsToEarlier ==
    \A s \in Sessions :
        (InBlock(s) /\ sess[s].fail_on_ambiguity) =>
            /\ sess[s].closure = sess[s].previous_showwarning
            /\ sess[s].closure # s

\* a warning that is not the ambiguity signal, issued while an interceptor is
\* installed: every interceptor on the way hands it to the handler captured
\* at its installation, the original handler shows it as it was issued, and
\* the session goes on
UnrelatedForwarded ==
    \A s \in Sessions :
        Len(sess'[s].signals) > Len(sess[s].signals) =>
            LET e == sess'[s].signals[Len(sess'[s].signals)] IN
            (Unrelated(e.sig) /\ showwarning # "orig") =>
                /\ e.handler = showwarning
                /\ ~e.raised
                /\ e.got = e.sig
                /\ e.reached = "orig"
                /\ e.via[1] = showwarning
                /\ Len(e.via) >= 2
                /\ \A i \in 1..(Len(e.via) - 1) : e.via[i + 1] = sess[e.via[i]].closure
                /\ shown' = shown + 1
                /\ sess'[s].pc = "body"
                /\ sess'[s].exc = sess[s].exc
                /\ showwarning' = showwarning

\* C32: while a session's interceptor is installed, a warning that is not the
\* ambiguity signal (another category, or a UserWarning without the snippet)
\* is handed on unchanged to the handler installed before the session entered,
\* reaches the original handler, and does not make the session fail.
C32_UnrelatedSignalsForwarded == []ForwardsToEarlier /\ [][UnrelatedForwarded]_vars

\* a UserWarning without the snippet issued under two nested interceptors went
\* through both to the original handler, and the inner session committed
C32_Witness ==
    \E s, t \in Sessions :
        /\ s # t
        /\ sess[s].pc = "closed"
        /\ sess[s].fail_on_ambiguity
        /\ sess[s].wrote
        /\ sess[s].exc = NoExc
        /\ Len(sess[s].signals) = 1
        /\ sess[s].signals[1].sig = [category |-> "UserWarning", snippet |-> FALSE]
        /\ sess[s].signals[1].via = <<s, t, "orig">>
        /\ InBlock(t)

====
